---- MODULE Spec2Model ----
(***************************************************************************)
(* Two fixture generators of the musicore repository.                      *)
(*                                                                         *)
(*   backend/tests/fixtures/generate_100_measures.py  (the Offset          *)
(*     Duplicator): loads a score, walks instruments / staves / voices     *)
(*     and appends to every voice a tick-shifted deep copy of its notes.   *)
(*   generate_dense_fixture.py  (the Pattern Synthesizer): builds a score  *)
(*     from two nested counting loops per staff.                           *)
(*                                                                         *)
(* Python objects are modelled with their identity: a note is a cell of    *)
(* noteHeap, its 'start_tick' dict a cell of tickHeap, and a list of notes *)
(* is a sequence of note addresses, so that copying and aliasing differ.   *)
(***************************************************************************)
EXTENDS Integers, Sequences, FiniteSets, TLC

VARIABLES
    \* ---- generate_100_measures.py
    score,           \* the loaded document (tree; voices hold note addresses)
    noteHeap,        \* note dicts, by address
    tickHeap,        \* the {"value": n} dicts of 'start_tick', by address
    input_file,      \* piano_50_measures.json, as a JSON value
    output_file,     \* piano_100_measures.json, as a JSON value (or NotWritten)
    pc,              \* position in the script
    raised,          \* the exception that ended the script, if any
    i, s, v,         \* positions of the three list iterators (1-based)
    original_notes,  \* the name original_notes (line 19)
    max_tick,        \* the name max_tick (line 20)
    n,               \* position of the iterator of line 23
    \* ---- generate_dense_fixture.py
    params,          \* MEASURES, TICKS_PER_MEASURE, EIGHTH_NOTE_DURATION, ...
    spc,             \* position in generate_dense_fixture
    treble_notes, bass_notes, note_counter,
    measure, measure_start, note_idx,
    fixture          \* the returned score (or NotWritten)

dupVars == <<score, noteHeap, tickHeap, input_file, output_file, pc, raised,
             i, s, v, original_notes, max_tick, n>>
synVars == <<params, spc, treble_notes, bass_notes, note_counter,
             measure, measure_start, note_idx, fixture>>
vars == <<dupVars, synVars>>

\* ------------------------------------------------------------------ bounds
\* Largest number of nodes (instruments + staves + voices + notes) of a
\* loaded document.
MaxNodes == 6
\* Start ticks a loaded note may have: on and off the 7680 grid.
Ticks == {0, 480, 960, 7680}

\* ------------------------------------------------------- program constants
TickShift == 7680

NotWritten == [absent |-> TRUE]
NoException == [kind |-> "none", line |-> 0]

\* ------------------------------------------------- documents (input space)
GlobalEvents ==
    << [Tempo |-> [tick |-> [value |-> 0], bpm |-> [value |-> 120]]],
       [TimeSignature |-> [tick |-> [value |-> 0], numerator |-> 4, denominator |-> 4]] >>
StaffEvents ==
    << [Clef |-> [tick |-> [value |-> 0], clef |-> "Treble"]],
       [KeySignature |-> [tick |-> [value |-> 0], fifths |-> 0]] >>

\* A node of the hierarchy; 'present' tells whether the key holding its
\* children exists at all (an absent key and an empty list differ).
MkNode(level, path, present, children) ==
    CASE level = 1 -> [id |-> path, name |-> "Piano", instrument_type |-> "piano",
                       has_staves |-> present, staves |-> children]
      [] level = 2 -> [id |-> path, staff_structural_events |-> StaffEvents,
                       has_voices |-> present, voices |-> children]
      [] level = 3 -> [id |-> path,
                       has_interval_events |-> present, interval_events |-> children]

RECURSIVE NodesG(_, _, _, _), ListsG(_, _, _, _, _)
\* The nodes of a level with at most budget >= 1 nodes in all, their notes
\* numbered from base + 1: records [node, w (nodes used), nc (notes used)].
NodesG(level, budget, base, path) ==
    {[node |-> MkNode(level, path, FALSE, <<>>), w |-> 1, nc |-> 0]}
    \cup
    IF level = 3
    THEN {[node |-> MkNode(3, path, TRUE, [k \in 1..c |-> base + k]),
           w |-> 1 + c, nc |-> c] : c \in 0..(budget - 1)}
    ELSE {[node |-> MkNode(level, path, TRUE, L.list), w |-> 1 + L.w, nc |-> L.nc] :
             L \in ListsG(level + 1, budget - 1, base, path, 1)}
ListsG(level, budget, base, path, pos) ==
    {[list |-> <<>>, w |-> 0, nc |-> 0]}
    \cup
    IF budget = 0 THEN {}
    ELSE UNION {
           {[list |-> <<x.node>> \o r.list, w |-> x.w + r.w, nc |-> x.nc + r.nc] :
               r \in ListsG(level, budget - x.w, base + x.nc, path, pos + 1)} :
           x \in NodesG(level, budget, base, Append(path, pos))}

MkScore(present, L) ==
    [score |-> [id |-> "score", global_structural_events |-> GlobalEvents,
                has_instruments |-> present, instruments |-> L.list],
     nc |-> L.nc]
Documents ==
    {MkScore(FALSE, [list |-> <<>>, nc |-> 0])}
    \cup {MkScore(TRUE, L) : L \in ListsG(1, MaxNodes, 0, <<>>, 1)}

\* The note dict json.load builds for the a-th note of the file.
LoadedNote(a) ==
    [id |-> <<"note", a>>, start_tick |-> a,
     duration_ticks |-> 240 * a, pitch |-> [value |-> 59 + a]]

\* ------------------------------------------------------------- json.dump
DumpNote(notes, ticks, a) ==
    [id |-> notes[a].id,
     start_tick |-> [value |-> ticks[notes[a].start_tick]],
     duration_ticks |-> notes[a].duration_ticks,
     pitch |-> notes[a].pitch]
DumpVoice(notes, ticks, vo) ==
    [vo EXCEPT !.interval_events =
        [k \in 1..Len(vo.interval_events) |-> DumpNote(notes, ticks, vo.interval_events[k])]]
DumpStaff(notes, ticks, st) ==
    [st EXCEPT !.voices = [k \in 1..Len(st.voices) |-> DumpVoice(notes, ticks, st.voices[k])]]
DumpInstrument(notes, ticks, ins) ==
    [ins EXCEPT !.staves = [k \in 1..Len(ins.staves) |-> DumpStaff(notes, ticks, ins.staves[k])]]
Dump(sc, notes, ticks) ==
    [sc EXCEPT !.instruments =
        [k \in 1..Len(sc.instruments) |-> DumpInstrument(notes, ticks, sc.instruments[k])]]

\* ---------------------------------------------------------------- helpers
SeqMax(q) == CHOOSE m \in {q[k] : k \in 1..Len(q)} : \A k \in 1..Len(q) : q[k] <= m

CurInstrument == score.instruments[i]
CurStaff == CurInstrument.staves[s]
CurVoice == CurStaff.voices[v]

Running == raised = NoException

SynIdle ==
    /\ params = NotWritten
    /\ spc = "idle"
    /\ treble_notes = <<>> /\ bass_notes = <<>> /\ note_counter = 0
    /\ measure = 0 /\ measure_start = 0 /\ note_idx = 0
    /\ fixture = NotWritten

\* --------------------------------------------- generate_100_measures.py
InitDup ==
    /\ \E d \in Documents : \E tv \in [1..d.nc -> Ticks] :
          /\ score = d.score
          /\ noteHeap = [a \in 1..d.nc |-> LoadedNote(a)]
          /\ tickHeap = tv
          /\ input_file = Dump(d.score, [a \in 1..d.nc |-> LoadedNote(a)], tv)
    /\ output_file = NotWritten
    /\ pc = "check"
    /\ raised = NoException
    /\ i = 1 /\ s = 1 /\ v = 1 /\ n = 1
    /\ original_notes = <<>>
    /\ max_tick = 0
    /\ SynIdle

\* Line 11: 'instruments' in score and len(score['instruments']) > 0
InstrumentsCheck(sc) == sc.has_instruments /\ Len(sc.instruments) > 0
\* Line 13: 'staves' in instrument
StavesCheck(ins) == ins.has_staves
\* Line 15 without its existence check.
VoicesCheckOmitted(st) == TRUE
\* Line 15: 'voices' in staff
VoicesCheck(st) == st.has_voices
\* Line 17: 'interval_events' in voice
IntervalEventsCheck(vo) == vo.has_interval_events

\* A subscript d[key]: KeyError when the key is absent.
KeyError(line) == [kind |-> "KeyError", line |-> line]
IndexError(line) == [kind |-> "IndexError", line |-> line]
ValueError(line) == [kind |-> "ValueError", line |-> line]

Raise(e) ==
    /\ raised' = e
    /\ UNCHANGED <<score, noteHeap, tickHeap, input_file, output_file, pc,
                   i, s, v, original_notes, max_tick, n>>

\* Line 11, condition false: the whole traversal is skipped.
NoInstruments ==
    /\ Running /\ pc = "check"
    /\ ~InstrumentsCheck(score)
    /\ pc' = "write"
    /\ UNCHANGED <<score, noteHeap, tickHeap, input_file, output_file, raised,
                   i, s, v, original_notes, max_tick, n>>
    /\ UNCHANGED synVars

\* Lines 11-12: the condition holds, iter(score['instruments']).
EnterInstruments ==
    /\ Running /\ pc = "check"
    /\ InstrumentsCheck(score)
    /\ IF score.has_instruments
       THEN /\ pc' = "instruments" /\ i' = 1
            /\ UNCHANGED <<score, noteHeap, tickHeap, input_file, output_file, raised,
                           s, v, original_notes, max_tick, n>>
       ELSE Raise(KeyError(12))
    /\ UNCHANGED synVars

\* Line 12: the instruments are exhausted, the traversal is over.
InstrumentsExhausted ==
    /\ Running /\ pc = "instruments"
    /\ i > Len(score.instruments)
    /\ pc' = "write"
    /\ UNCHANGED <<score, noteHeap, tickHeap, input_file, output_file, raised,
                   i, s, v, original_notes, max_tick, n>>
    /\ UNCHANGED synVars

\* Lines 12-13: an instrument without 'staves' is passed over.
SkipInstrument ==
    /\ Running /\ pc = "instruments"
    /\ i <= Len(score.instruments)
    /\ ~StavesCheck(CurInstrument)
    /\ i' = i + 1
    /\ UNCHANGED <<score, noteHeap, tickHeap, input_file, output_file, pc, raised,
                   s, v, original_notes, max_tick, n>>
    /\ UNCHANGED synVars

\* Lines 12-14: iter(instrument['staves']).
EnterStaves ==
    /\ Running /\ pc = "instruments"
    /\ i <= Len(score.instruments)
    /\ StavesCheck(CurInstrument)
    /\ IF CurInstrument.has_staves
       THEN /\ pc' = "staves" /\ s' = 1
            /\ UNCHANGED <<score, noteHeap, tickHeap, input_file, output_file, raised,
                           i, v, original_notes, max_tick, n>>
       ELSE Raise(KeyError(14))
    /\ UNCHANGED synVars

\* Line 14: the staves are exhausted, on to the next instrument.
StavesExhausted ==
    /\ Running /\ pc = "staves"
    /\ s > Len(CurInstrument.staves)
    /\ pc' = "instruments" /\ i' = i + 1
    /\ UNCHANGED <<score, noteHeap, tickHeap, input_file, output_file, raised,
                   s, v, original_notes, max_tick, n>>
    /\ UNCHANGED synVars

\* Lines 14-15: a staff without 'voices' is passed over.
SkipStaff ==
    /\ Running /\ pc = "staves"
    /\ s <= Len(CurInstrument.staves)
    /\ ~VoicesCheck(CurStaff)
    /\ s' = s + 1
    /\ UNCHANGED <<score, noteHeap, tickHeap, input_file, output_file, pc, raised,
                   i, v, original_notes, max_tick, n>>
    /\ UNCHANGED synVars

\* Lines 14-16: iter(staff['voices']).
EnterVoices ==
    /\ Running /\ pc = "staves"
    /\ s <= Len(CurInstrument.staves)
    /\ VoicesCheck(CurStaff)
    /\ IF CurStaff.has_voices
       THEN /\ pc' = "voices" /\ v' = 1
            /\ UNCHANGED <<score, noteHeap, tickHeap, input_file, output_file, raised,
                           i, s, original_notes, max_tick, n>>
       ELSE Raise(KeyError(16))
    /\ UNCHANGED synVars

\* Line 16: the voices are exhausted, on to the next staff.
VoicesExhausted ==
    /\ Running /\ pc = "voices"
    /\ v > Len(CurStaff.voices)
    /\ pc' = "staves" /\ s' = s + 1
    /\ UNCHANGED <<score, noteHeap, tickHeap, input_file, output_file, raised,
                   i, v, original_notes, max_tick, n>>
    /\ UNCHANGED synVars

\* Lines 16-17: a voice without 'interval_events' is passed over.
SkipVoice ==
    /\ Running /\ pc = "voices"
    /\ v <= Len(CurStaff.voices)
    /\ ~IntervalEventsCheck(CurVoice)
    /\ v' = v + 1
    /\ UNCHANGED <<score, noteHeap, tickHeap, input_file, output_file, pc, raised,
                   i, s, original_notes, max_tick, n>>
    /\ UNCHANGED synVars

\* Line 20 with max(..., default=0): no exception on an empty list.
PyMaxDefault(notes) ==
    IF notes = <<>>
    THEN [raises |-> FALSE, value |-> 0]
    ELSE [raises |-> FALSE,
          value |-> SeqMax([k \in 1..Len(notes) |-> tickHeap[noteHeap[notes[k]].start_tick]])]
\* Line 20 taking the last note's start tick for the largest.
PyMaxLast(notes) ==
    IF notes = <<>>
    THEN [raises |-> TRUE, value |-> 0]
    ELSE [raises |-> FALSE, value |-> tickHeap[noteHeap[notes[Len(notes)]].start_tick]]
\* Line 20: max(note['start_tick']['value'] for note in notes); the builtin
\* raises ValueError on an empty iterable.
PyMax(notes) ==
    IF notes = <<>>
    THEN [raises |-> TRUE, value |-> 0]
    ELSE [raises |-> FALSE,
          value |-> SeqMax([k \in 1..Len(notes) |-> tickHeap[noteHeap[notes[k]].start_tick]])]

\* Line 20: the shift of the copies (bound to the name max_tick).
ShiftOf(m) == m + TickShift

\* Lines 17-20: the snapshot of the voice's list and the shift.
SnapshotVoice ==
    /\ Running /\ pc = "voices"
    /\ v <= Len(CurStaff.voices)
    /\ IntervalEventsCheck(CurVoice)
    /\ IF ~CurVoice.has_interval_events
       THEN Raise(KeyError(19))
       ELSE LET copied == CurVoice.interval_events
                m == PyMax(copied)
            IN  IF m.raises
                THEN /\ original_notes' = copied
                     /\ raised' = ValueError(20)
                     /\ UNCHANGED <<score, noteHeap, tickHeap, input_file, output_file,
                                    pc, i, s, v, max_tick, n>>
                ELSE /\ original_notes' = copied
                     /\ max_tick' = ShiftOf(m.value)
                     /\ n' = 1
                     /\ pc' = "notes"
                     /\ UNCHANGED <<score, noteHeap, tickHeap, input_file, output_file,
                                    raised, i, s, v>>
    /\ UNCHANGED synVars

\* Line 19 without .copy(): original_notes is the voice's own list.
OriginalNotesAliased == CurVoice.interval_events
\* Line 19: what the name original_notes denotes while line 23 iterates: a
\* copy made before the first append, not the voice's own list.
OriginalNotes == original_notes

\* Line 24 as note.copy(): a new note dict sharing the 'start_tick' dict.
ShallowCopy(a) ==
    [ticks |-> tickHeap,
     notes |-> Append(noteHeap, noteHeap[a]),
     ref   |-> Len(noteHeap) + 1]
\* Line 24 followed by the minting of a new identifier for the copy.
DeepCopyFreshId(a) ==
    [ticks |-> Append(tickHeap, tickHeap[noteHeap[a].start_tick]),
     notes |-> Append(noteHeap, [noteHeap[a] EXCEPT !.start_tick = Len(tickHeap) + 1,
                                                    !.id = <<"note", Len(noteHeap) + 1>>]),
     ref   |-> Len(noteHeap) + 1]
\* Line 24: json.loads(json.dumps(note)): a new note dict with a new
\* 'start_tick' dict, holding the same values.
DeepCopy(a) ==
    [ticks |-> Append(tickHeap, tickHeap[noteHeap[a].start_tick]),
     notes |-> Append(noteHeap, [noteHeap[a] EXCEPT !.start_tick = Len(tickHeap) + 1]),
     ref   |-> Len(noteHeap) + 1]

\* Line 23: the snapshot is exhausted, on to the next voice.
NotesExhausted ==
    /\ Running /\ pc = "notes"
    /\ n > Len(OriginalNotes)
    /\ pc' = "voices" /\ v' = v + 1
    /\ UNCHANGED <<score, noteHeap, tickHeap, input_file, output_file, raised,
                   i, s, original_notes, max_tick, n>>
    /\ UNCHANGED synVars

\* Lines 23-26: copy one note, shift the copy, append it to the voice.
AppendNote ==
    /\ Running /\ pc = "notes"
    /\ n <= Len(OriginalNotes)
    /\ LET c == DeepCopy(OriginalNotes[n])
       IN  /\ noteHeap' = c.notes
           /\ tickHeap' = [c.ticks EXCEPT ![c.notes[c.ref].start_tick] = @ + max_tick]
           /\ score' = [score EXCEPT
                  !.instruments[i].staves[s].voices[v].interval_events = Append(@, c.ref)]
    /\ n' = n + 1
    /\ UNCHANGED <<input_file, output_file, pc, raised, i, s, v, original_notes, max_tick>>
    /\ UNCHANGED synVars

\* Lines 29-30: json.dump(score, f).
WriteFile ==
    /\ Running /\ pc = "write"
    /\ output_file' = Dump(score, noteHeap, tickHeap)
    /\ pc' = "report"
    /\ UNCHANGED <<score, noteHeap, tickHeap, input_file, raised,
                   i, s, v, original_notes, max_tick, n>>
    /\ UNCHANGED synVars

\* Lines 32-33: len(score['instruments'][0]['staves'][0]['voices'][0]['interval_events'])
ReportLookup ==
    IF ~score.has_instruments THEN KeyError(33)
    ELSE IF score.instruments = <<>> THEN IndexError(33)
    ELSE IF ~score.instruments[1].has_staves THEN KeyError(33)
    ELSE IF score.instruments[1].staves = <<>> THEN IndexError(33)
    ELSE IF ~score.instruments[1].staves[1].has_voices THEN KeyError(33)
    ELSE IF score.instruments[1].staves[1].voices = <<>> THEN IndexError(33)
    ELSE IF ~score.instruments[1].staves[1].voices[1].has_interval_events THEN KeyError(33)
    ELSE NoException

Report ==
    /\ Running /\ pc = "report"
    /\ IF ReportLookup = NoException
       THEN /\ pc' = "done"
            /\ UNCHANGED <<score, noteHeap, tickHeap, input_file, output_file, raised,
                           i, s, v, original_notes, max_tick, n>>
       ELSE Raise(ReportLookup)
    /\ UNCHANGED synVars

NextDup ==
    \/ NoInstruments \/ EnterInstruments
    \/ InstrumentsExhausted \/ SkipInstrument \/ EnterStaves
    \/ StavesExhausted \/ SkipStaff \/ EnterVoices
    \/ VoicesExhausted \/ SkipVoice \/ SnapshotVoice
    \/ NotesExhausted \/ AppendNote
    \/ WriteFile \/ Report

SpecDup == InitDup /\ [][NextDup]_vars

\* ================================================= properties: duplicator
\* The voices of the loaded file that have an 'interval_events' list.
VoicePaths ==
    {p \in UNION {UNION {{<<a, b, c>> :
                            c \in 1..Len(input_file.instruments[a].staves[b].voices)} :
                         b \in 1..Len(input_file.instruments[a].staves)} :
                  a \in 1..Len(input_file.instruments)} :
        input_file.instruments[p[1]].staves[p[2]].voices[p[3]].has_interval_events}
\* A voice's events in the loaded file, and now (as json.dump would write them).
InEvents(p) == input_file.instruments[p[1]].staves[p[2]].voices[p[3]].interval_events
CurEvents(p) ==
    DumpVoice(noteHeap, tickHeap,
              score.instruments[p[1]].staves[p[2]].voices[p[3]]).interval_events
TicksOf(evs) == [k \in 1..Len(evs) |-> evs[k].start_tick.value]

\* Where the traversal stands, and the voices it has left behind.
Cursor ==
    CASE pc = "check" -> <<0, 0, 0>>
      [] pc = "instruments" -> <<i, 0, 0>>
      [] pc = "staves" -> <<i, s, 0>>
      [] pc \in {"voices", "notes"} -> <<i, s, v>>
      [] OTHER -> <<Len(score.instruments) + 1, 0, 0>>
LexLess(p, q) ==
    \/ p[1] < q[1]
    \/ p[1] = q[1] /\ p[2] < q[2]
    \/ p[1] = q[1] /\ p[2] = q[2] /\ p[3] < q[3]
Finished(p) == LexLess(p, Cursor)
IsMaxOf(m, evs) ==
    /\ \E k \in 1..Len(evs) : evs[k].start_tick.value = m
    /\ \A k \in 1..Len(evs) : evs[k].start_tick.value <= m

\* C1: a voice with k >= 1 events holds between k and 2k events while the
\* pass runs, and exactly 2k once the pass has left it.
C1_Cardinality ==
    \A p \in VoicePaths :
        LET k == Len(InEvents(p))
        IN  k >= 1 =>
              /\ Len(CurEvents(p)) >= k
              /\ Len(CurEvents(p)) <= 2 * k
              /\ Finished(p) => Len(CurEvents(p)) = 2 * k
C1_Witness ==
    /\ pc = "done"
    /\ \E p \in VoicePaths : Len(InEvents(p)) >= 2 /\ Len(CurEvents(p)) = 2 * Len(InEvents(p))

\* C2: the copy of the event at index idx starts at t + (max_tick + 7680),
\* max_tick being the largest start tick of that voice in the loaded file;
\* ticks <<0, 480, 960>> become <<0, 480, 960, 8640, 9120, 9600>>.
C2_Offset ==
    \A p \in VoicePaths :
        LET k == Len(InEvents(p))
        IN  (k >= 1 /\ Finished(p)) =>
              /\ Len(CurEvents(p)) = 2 * k
              /\ \A m \in Ticks : IsMaxOf(m, InEvents(p)) =>
                    \A idx \in 1..k :
                        CurEvents(p)[k + idx].start_tick.value
                            = InEvents(p)[idx].start_tick.value + (m + 7680)
              /\ TicksOf(InEvents(p)) = <<0, 480, 960>>
                    => TicksOf(CurEvents(p)) = <<0, 480, 960, 8640, 9120, 9600>>
C2_Witness ==
    /\ pc = "done"
    /\ \E p \in VoicePaths :
          /\ TicksOf(InEvents(p)) = <<0, 480, 960>>
          /\ TicksOf(CurEvents(p)) = <<0, 480, 960, 8640, 9120, 9600>>

\* C3: the event at position k + idx equals the event at position idx in every
\* field but start_tick, identifier included.
C3_CopyIdentity ==
    \A p \in VoicePaths :
        LET k == Len(InEvents(p))
        IN  (k >= 1 /\ Finished(p)) =>
              /\ Len(CurEvents(p)) = 2 * k
              /\ \A idx \in 1..k :
                    /\ [CurEvents(p)[k + idx] EXCEPT !.start_tick = CurEvents(p)[idx].start_tick]
                          = CurEvents(p)[idx]
                    /\ CurEvents(p)[k + idx].id = InEvents(p)[idx].id
                    /\ CurEvents(p)[k + idx].pitch = InEvents(p)[idx].pitch
                    /\ CurEvents(p)[k + idx].duration_ticks = InEvents(p)[idx].duration_ticks
C3_Witness ==
    /\ pc = "done"
    /\ \E p \in VoicePaths :
          /\ Len(InEvents(p)) >= 2
          /\ Len(CurEvents(p)) = 2 * Len(InEvents(p))
          /\ CurEvents(p)[Len(InEvents(p)) + 2].id = CurEvents(p)[2].id

\* C4: the step taken at a voice whose list is present and empty raises an
\* error and appends nothing.
AtEmptyVoice ==
    /\ Running /\ pc = "voices"
    /\ v <= Len(CurStaff.voices)
    /\ CurVoice.has_interval_events
    /\ CurVoice.interval_events = <<>>
C4_EmptyVoiceRaises ==
    [][AtEmptyVoice =>
          /\ raised'.kind = "ValueError"
          /\ score' = score /\ noteHeap' = noteHeap /\ tickHeap' = tickHeap
          /\ pc' = pc /\ output_file' = output_file]_vars
C4_Witness ==
    /\ raised.kind = "ValueError"
    /\ pc = "voices"
    /\ CurVoice.interval_events = <<>>
    /\ output_file = NotWritten

\* C5: no lookup of the traversal (lines 11-26) raises for a missing key, and a
\* document without any 'interval_events' list is never changed.
C5_MalformedSkipped ==
    /\ raised.kind \in {"KeyError", "IndexError"} => raised.line = 33
    /\ VoicePaths = {} =>
          /\ raised.kind # "ValueError"
          /\ Dump(score, noteHeap, tickHeap) = input_file
          /\ pc \in {"report", "done"} => output_file = input_file
C5_Witness ==
    /\ pc = "report"
    /\ VoicePaths = {}
    /\ output_file = input_file
    /\ \E a \in 1..Len(score.instruments) : ~score.instruments[a].has_staves
    /\ \E a \in 1..Len(score.instruments) :
          /\ \E b \in 1..Len(score.instruments[a].staves) :
                ~score.instruments[a].staves[b].has_voices
          /\ \E b \in 1..Len(score.instruments[a].staves) :
                \E c \in 1..Len(score.instruments[a].staves[b].voices) :
                    ~score.instruments[a].staves[b].voices[c].has_interval_events

\* C6: at every moment the document with the appended events cut off is the
\* loaded document, and two voices with different largest start ticks are
\* shifted by different amounts.
ClearVoice(vo) == [vo EXCEPT !.interval_events = <<>>]
ClearStaff(st) == [st EXCEPT !.voices = [k \in 1..Len(st.voices) |-> ClearVoice(st.voices[k])]]
ClearInstrument(ins) ==
    [ins EXCEPT !.staves = [k \in 1..Len(ins.staves) |-> ClearStaff(ins.staves[k])]]
ClearEvents(doc) ==
    [doc EXCEPT !.instruments =
        [k \in 1..Len(doc.instruments) |-> ClearInstrument(doc.instruments[k])]]
C6_Frame ==
    /\ ClearEvents(Dump(score, noteHeap, tickHeap)) = ClearEvents(input_file)
    /\ \A p \in VoicePaths :
          /\ Len(CurEvents(p)) >= Len(InEvents(p))
          /\ SubSeq(CurEvents(p), 1, Len(InEvents(p))) = InEvents(p)
    /\ \A p, q \in VoicePaths :
          (/\ Finished(p) /\ Finished(q)
           /\ Len(InEvents(p)) >= 1 /\ Len(InEvents(q)) >= 1
           /\ \E m \in Ticks : IsMaxOf(m, InEvents(p)) /\ ~IsMaxOf(m, InEvents(q)))
          => CurEvents(p)[Len(InEvents(p)) + 1].start_tick.value
                 - InEvents(p)[1].start_tick.value
             # CurEvents(q)[Len(InEvents(q)) + 1].start_tick.value
                 - InEvents(q)[1].start_tick.value
C6_Witness ==
    /\ pc = "done"
    /\ \E p, q \in VoicePaths :
          /\ p[1] = q[1] /\ p[2] = q[2] /\ p[3] # q[3]
          /\ Len(InEvents(p)) >= 1 /\ Len(InEvents(q)) >= 1
          /\ \E m \in Ticks : IsMaxOf(m, InEvents(p)) /\ ~IsMaxOf(m, InEvents(q))
          /\ Len(CurEvents(p)) = 2 * Len(InEvents(p))
          /\ Len(CurEvents(q)) = 2 * Len(InEvents(q))

MaxMeasures == 3
MaxNotesPerMeasure == 4

\* The script's constants (lines 16-19, 30, 49).
MEASURES == 30
TICKS_PER_MEASURE == 3840
EIGHTH_NOTE_DURATION == 480
NOTES_PER_MEASURE == 8
treble_pitches == <<60, 62, 64, 65, 67, 69, 71, 72>>
bass_pitches == <<48, 50, 52, 53, 55, 57, 59, 60>>

ScriptParams ==
    [MEASURES |-> MEASURES, TICKS_PER_MEASURE |-> TICKS_PER_MEASURE,
     EIGHTH_NOTE_DURATION |-> EIGHTH_NOTE_DURATION,
     NOTES_PER_MEASURE |-> NOTES_PER_MEASURE,
     treble_pitches |-> treble_pitches, bass_pitches |-> bass_pitches]
\* The script's constants, and small values of the same parameters (the
\* pitch lists also cut to three pitches, so that the index wraps).
ParamChoices ==
    {ScriptParams}
    \cup [MEASURES : 0..MaxMeasures,
          TICKS_PER_MEASURE : {TICKS_PER_MEASURE, 1920},
          EIGHTH_NOTE_DURATION : {EIGHTH_NOTE_DURATION, 240},
          NOTES_PER_MEASURE : 0..MaxNotesPerMeasure,
          treble_pitches : {treble_pitches, SubSeq(treble_pitches, 1, 3)},
          bass_pitches : {bass_pitches, SubSeq(bass_pitches, 1, 3)}]

DupIdle ==
    /\ score = NotWritten /\ noteHeap = <<>> /\ tickHeap = <<>>
    /\ input_file = NotWritten /\ output_file = NotWritten
    /\ pc = "idle" /\ raised = NoException
    /\ i = 1 /\ s = 1 /\ v = 1 /\ n = 1
    /\ original_notes = <<>> /\ max_tick = 0

\* Lines 16-32: the constants, treble_notes = [], note_counter = 10.
InitSyn ==
    /\ params \in ParamChoices
    /\ spc = "treble_measure"
    /\ treble_notes = <<>> /\ bass_notes = <<>>
    /\ note_counter = 10
    /\ measure = 0 /\ measure_start = 0 /\ note_idx = 0
    /\ fixture = NotWritten
    /\ DupIdle

\* for k in range(stop): k is produced while it is below stop.
InRangeInclusive(k, stop) == k <= stop
InRange(k, stop) == k < stop

\* Lines 37 and 56: tick = measure_start + (note_idx * EIGHTH_NOTE_DURATION)
TickAtNext(ms, idx) == ms + ((idx + 1) * params.EIGHTH_NOTE_DURATION)
TickAt(ms, idx) == ms + (idx * params.EIGHTH_NOTE_DURATION)

\* Lines 38 and 57: pitches[note_idx % len(pitches)] (Python lists are 0-based).
PitchAt(pitches, idx) == pitches[(idx % Len(pitches)) + 1]

\* {note_counter:04d}: the decimal digits, zero-padded on the left to width 4.
DigitChar(d) ==
    CASE d = 0 -> "0" [] d = 1 -> "1" [] d = 2 -> "2" [] d = 3 -> "3" [] d = 4 -> "4"
      [] d = 5 -> "5" [] d = 6 -> "6" [] d = 7 -> "7" [] d = 8 -> "8" [] d = 9 -> "9"
RECURSIVE Decimal(_)
Decimal(c) == IF c < 10 THEN <<DigitChar(c)>> ELSE Append(Decimal(c \div 10), DigitChar(c % 10))
RECURSIVE ZeroPad(_, _)
ZeroPad(digits, width) ==
    IF Len(digits) >= width THEN digits ELSE ZeroPad(<<"0">> \o digits, width)
Format04d(c) == ZeroPad(Decimal(c), 4)

\* Lines 41 and 60: the f-string, as the sequence of its pieces.
NoteId(prefix, c) == prefix \o Format04d(c) \o <<"-8400-e29b-41d4-a716-446655440000">>

\* Lines 40-45 and 59-64: the note dict.
NewNote(prefix, c, tick, pitch) ==
    [id |-> NoteId(prefix, c),
     start_tick |-> [value |-> tick],
     duration_ticks |-> params.EIGHTH_NOTE_DURATION,
     pitch |-> [value |-> pitch]]

\* Lines 46 and 65: note_counter += 1
CounterStuck(c) == c
NextCounter(c) == c + 1

\* Lines 34-35: the next measure of the treble staff.
TrebleMeasure ==
    /\ spc = "treble_measure"
    /\ InRange(measure, params.MEASURES)
    /\ measure_start' = measure * params.TICKS_PER_MEASURE
    /\ note_idx' = 0
    /\ spc' = "treble_note"
    /\ UNCHANGED <<params, treble_notes, bass_notes, note_counter, measure, fixture>>
    /\ UNCHANGED dupVars

\* Lines 36-46: one treble note.
TrebleNote ==
    /\ spc = "treble_note"
    /\ InRange(note_idx, params.NOTES_PER_MEASURE)
    /\ treble_notes' = Append(treble_notes,
           NewNote(<<"t", "n">>, note_counter, TickAt(measure_start, note_idx),
                   PitchAt(params.treble_pitches, note_idx)))
    /\ note_counter' = NextCounter(note_counter)
    /\ note_idx' = note_idx + 1
    /\ UNCHANGED <<params, spc, bass_notes, measure, measure_start, fixture>>
    /\ UNCHANGED dupVars

\* Line 36: the measure is full, back to line 34.
TrebleMeasureEnd ==
    /\ spc = "treble_note"
    /\ ~InRange(note_idx, params.NOTES_PER_MEASURE)
    /\ measure' = measure + 1
    /\ spc' = "treble_measure"
    /\ UNCHANGED <<params, treble_notes, bass_notes, note_counter, measure_start,
                   note_idx, fixture>>
    /\ UNCHANGED dupVars

\* Lines 34, 49-51: the treble loop ends; bass_notes = [], note_counter = 10000.
TrebleEnd ==
    /\ spc = "treble_measure"
    /\ ~InRange(measure, params.MEASURES)
    /\ bass_notes' = <<>>
    /\ note_counter' = 10000
    /\ measure' = 0
    /\ spc' = "bass_measure"
    /\ UNCHANGED <<params, treble_notes, measure_start, note_idx, fixture>>
    /\ UNCHANGED dupVars

\* Lines 53-54: the next measure of the bass staff.
BassMeasure ==
    /\ spc = "bass_measure"
    /\ InRange(measure, params.MEASURES)
    /\ measure_start' = measure * params.TICKS_PER_MEASURE
    /\ note_idx' = 0
    /\ spc' = "bass_note"
    /\ UNCHANGED <<params, treble_notes, bass_notes, note_counter, measure, fixture>>
    /\ UNCHANGED dupVars

\* Lines 55-65: one bass note.
BassNote ==
    /\ spc = "bass_note"
    /\ InRange(note_idx, params.NOTES_PER_MEASURE)
    /\ bass_notes' = Append(bass_notes,
           NewNote(<<"b", "n">>, note_counter, TickAt(measure_start, note_idx),
                   PitchAt(params.bass_pitches, note_idx)))
    /\ note_counter' = NextCounter(note_counter)
    /\ note_idx' = note_idx + 1
    /\ UNCHANGED <<params, spc, treble_notes, measure, measure_start, fixture>>
    /\ UNCHANGED dupVars

\* Line 55: the measure is full, back to line 53.
BassMeasureEnd ==
    /\ spc = "bass_note"
    /\ ~InRange(note_idx, params.NOTES_PER_MEASURE)
    /\ measure' = measure + 1
    /\ spc' = "bass_measure"
    /\ UNCHANGED <<params, treble_notes, bass_notes, note_counter, measure_start,
                   note_idx, fixture>>
    /\ UNCHANGED dupVars

\* Lines 68-140: the score built around the two note lists.
BuiltScore ==
    [id |-> "aa0e8400-e29b-41d4-a716-446655440000",
     global_structural_events |-> GlobalEvents,
     instruments |-> <<
        [id |-> "bb0e8400-e29b-41d4-a716-446655440001",
         name |-> "Piano",
         instrument_type |-> "piano",
         staves |-> <<
            [id |-> "cc0e8400-e29b-41d4-a716-446655440002",
             staff_structural_events |-> StaffEvents,
             voices |-> << [id |-> "ee0e8400-e29b-41d4-a716-446655440004",
                            interval_events |-> treble_notes] >>],
            [id |-> "dd0e8400-e29b-41d4-a716-446655440003",
             staff_structural_events |->
                << [Clef |-> [tick |-> [value |-> 0], clef |-> "Bass"]], StaffEvents[2] >>,
             voices |-> << [id |-> "ff0e8400-e29b-41d4-a716-446655440005",
                            interval_events |-> bass_notes] >>] >>] >>]

\* Lines 53, 68-150: the bass loop ends; the score is built and returned.
ReturnScore ==
    /\ spc = "bass_measure"
    /\ ~InRange(measure, params.MEASURES)
    /\ fixture' = BuiltScore
    /\ spc' = "done"
    /\ UNCHANGED <<params, treble_notes, bass_notes, note_counter, measure,
                   measure_start, note_idx>>
    /\ UNCHANGED dupVars

NextSyn ==
    \/ TrebleMeasure \/ TrebleNote \/ TrebleMeasureEnd \/ TrebleEnd
    \/ BassMeasure \/ BassNote \/ BassMeasureEnd
    \/ ReturnScore

SpecSyn == InitSyn /\ [][NextSyn]_vars

\* ================================================ properties: synthesizer
\* The interval events of the two staves of the returned score.
StaffEventsOf(k) == fixture.instruments[1].staves[k].voices[1].interval_events
Returned == spc = "done"

\* C7: each staff's voice of the returned score holds exactly
\* MEASURES x NOTES_PER_MEASURE events; with the script's constants that is
\* 240 events per staff, the last one starting at tick 114720.
C7_Cardinality ==
    Returned =>
        /\ Len(fixture.instruments[1].staves) = 2
        /\ \A k \in 1..2 :
              /\ Len(fixture.instruments[1].staves[k].voices) = 1
              /\ Len(StaffEventsOf(k)) = params.MEASURES * params.NOTES_PER_MEASURE
              /\ params = ScriptParams =>
                    /\ Len(StaffEventsOf(k)) = 240
                    /\ StaffEventsOf(k)[240].start_tick.value = 114720
C7_Witness ==
    /\ Returned
    /\ params = ScriptParams
    /\ Len(StaffEventsOf(1)) = 240 /\ Len(StaffEventsOf(2)) = 240

\* C8: the j-th note of a staff (j counted from 0) starts at
\* (j div N) * ticks_per_measure + (j mod N) * note_duration with pitch
\* pitch_sequence[(j mod N) mod len]; consecutive notes are note_duration apart
\* within a measure and ticks_per_measure - (N-1) * note_duration apart across
\* a measure boundary.
SpacingOf(notes, pitches) ==
    LET N == params.NOTES_PER_MEASURE
        D == params.EIGHTH_NOTE_DURATION
        T == params.TICKS_PER_MEASURE
    IN  /\ \A j \in 0..(Len(notes) - 1) :
              /\ notes[j + 1].start_tick.value = (j \div N) * T + (j % N) * D
              /\ notes[j + 1].pitch.value = pitches[((j % N) % Len(pitches)) + 1]
        /\ \A j \in 1..(Len(notes) - 1) :
              LET step == notes[j + 1].start_tick.value - notes[j].start_tick.value
              IN  /\ step \in {D, T - (N - 1) * D}
                  /\ (j % N # 0) => step = D
                  /\ (j % N = 0) => step = T - (N - 1) * D
C8_TickSpacing ==
    /\ SpacingOf(treble_notes, params.treble_pitches)
    /\ SpacingOf(bass_notes, params.bass_pitches)
    /\ Returned =>
          /\ SpacingOf(StaffEventsOf(1), params.treble_pitches)
          /\ SpacingOf(StaffEventsOf(2), params.bass_pitches)
C8_Witness ==
    /\ Returned
    /\ params.MEASURES >= 2
    /\ params.NOTES_PER_MEASURE >= 2
    /\ params.NOTES_PER_MEASURE > Len(params.treble_pitches)
    /\ Len(StaffEventsOf(1)) >= 4
    /\ Len(StaffEventsOf(2)) >= 4

\* C9: no two interval events generated so far, and none of the returned
\* score, share an identifier, within a staff or across the two staves.
DistinctIds(notes) ==
    \A a, b \in 1..Len(notes) : a # b => notes[a].id # notes[b].id
C9_UniqueIds ==
    /\ DistinctIds(treble_notes \o bass_notes)
    /\ Returned => DistinctIds(StaffEventsOf(1) \o StaffEventsOf(2))
C9_Witness ==
    /\ Returned
    /\ Len(StaffEventsOf(1)) >= 2 /\ Len(StaffEventsOf(2)) >= 2
    /\ StaffEventsOf(1)[1].id
         = <<"t", "n", "0", "0", "1", "0", "-8400-e29b-41d4-a716-446655440000">>
    /\ StaffEventsOf(2)[1].id
         = <<"b", "n", "1", "0", "0", "0", "0", "-8400-e29b-41d4-a716-446655440000">>

====
